---- MODULE Spec2Model ----
(***************************************************************************)
(* A model of the libm functions trunc, fabsf, fmaf, powi, acoshf and      *)
(* exp2f.  Floating-point values are their IEEE-754 bit patterns: a        *)
(* sequence over {0,1}, least significant bit first (32 bits for f32, 64   *)
(* for f64), which is also the value of to_bits().  Arithmetic on them is  *)
(* IEEE-754 round-to-nearest-even: the exact result, rounded once.         *)
(***************************************************************************)
EXTENDS Integers, Sequences, FiniteSets, TLC

VARIABLES fn, args, pc, ret, loc

vars == <<fn, args, pc, ret, loc>>

\* F(e), and F(e1, e2), with the arguments evaluated once, before F is
\* applied to their values: a let binding, and an operator that takes its
\* operands by value.
Bind(e, F(_)) == CHOOSE r \in {F(v) : v \in {e}} : TRUE

Bind2(e1, e2, F(_, _)) == CHOOSE r \in {F(a, b) : a \in {e1}, b \in {e2}} : TRUE

(***************************************************************************)
(* Bit vectors (u32, u64 and the bit patterns of f32, f64).                *)
(***************************************************************************)

\* The w-bit pattern of the integer n (0 <= n < 2^31, w <= 31).
Bits(n, w) == [k \in 1..w |-> (n \div (2^(k-1))) % 2]

\* The integer a bit vector of at most 31 bits stands for.
RECURSIVE ToInt(_)
ToInt(b) == IF Len(b) = 0 THEN 0 ELSE b[1] + 2 * ToInt(Tail(b))

Zeros(w) == [k \in 1..w |-> 0]

Ones(w) == [k \in 1..w |-> 1]

\* a & b
BitAnd(a, b) == [k \in 1..Len(a) |-> a[k] * b[k]]

\* !a
BitNot(a) == [k \in 1..Len(a) |-> 1 - a[k]]

\* a | b
BitOr(a, b) == [k \in 1..Len(a) |-> 1 - (1 - a[k]) * (1 - b[k])]

\* a ^ b
BitXor(a, b) == [k \in 1..Len(a) |-> (a[k] + b[k]) % 2]

\* a >> n on an unsigned integer (logical shift, 0 <= n < width).
Shr(a, n) == [k \in 1..Len(a) |-> IF k + n <= Len(a) THEN a[k+n] ELSE 0]

\* The bits lo..hi (numbered from 0) of a, as an integer: (a >> lo) & (2^(hi-lo+1) - 1).
Field(a, lo, hi) == ToInt(SubSeq(a, lo + 1, hi + 1))

IsZeroBits(a) == \A k \in 1..Len(a) : a[k] = 0

\* The position (from 1) of the highest set bit of a, 0 when a is zero.
RECURSIVE HighBitFrom(_, _)
HighBitFrom(a, k) ==
  IF k = 0 THEN 0 ELSE IF a[k] = 1 THEN k ELSE HighBitFrom(a, k - 1)

HighBit(a) == HighBitFrom(a, Len(a))

\* a < b and a <= b for unsigned integers of the same width.
RECURSIVE BitsLtFrom(_, _, _)
BitsLtFrom(a, b, k) ==
  IF k = 0 THEN FALSE
  ELSE IF a[k] # b[k] THEN a[k] < b[k]
  ELSE BitsLtFrom(a, b, k - 1)

BitsLt(a, b) == BitsLtFrom(a, b, Len(a))

BitsLe(a, b) == ~BitsLt(b, a)

\* a + 1 on a bit vector, one bit longer when it carries out.
BitsInc(a) ==
  LET z == {k \in 1..Len(a) : a[k] = 0}
      j == IF z = {} THEN Len(a) + 1 ELSE CHOOSE k \in z : \A i \in z : k <= i
  IN [k \in 1..(IF z = {} THEN Len(a) + 1 ELSE Len(a)) |->
        IF k < j THEN 0 ELSE IF k = j THEN 1 ELSE a[k]]

(***************************************************************************)
(* Unbounded naturals for exact intermediate results: little-endian limbs  *)
(* in base 4096, no leading zero limb, zero is <<>>.                       *)
(***************************************************************************)

RECURSIVE WNorm(_)
WNorm(a) ==
  IF Len(a) = 0 THEN a
  ELSE IF a[Len(a)] = 0 THEN WNorm(SubSeq(a, 1, Len(a) - 1)) ELSE a

WTail(a) == IF Len(a) = 0 THEN a ELSE Tail(a)

WHead(a) == IF Len(a) = 0 THEN 0 ELSE Head(a)

RECURSIVE WAddC(_, _, _)
WAddC(a, b, c) ==
  IF Len(a) = 0 /\ Len(b) = 0 THEN (IF c = 0 THEN <<>> ELSE <<c>>)
  ELSE LET s == WHead(a) + WHead(b) + c
       IN <<s % 4096>> \o WAddC(WTail(a), WTail(b), s \div 4096)

WAdd(a, b) == WAddC(a, b, 0)

\* a - b for a >= b.
RECURSIVE WSubB(_, _, _)
WSubB(a, b, c) ==
  IF Len(a) = 0 THEN <<>>
  ELSE LET d == WHead(a) - WHead(b) - c
       IN <<d % 4096>> \o WSubB(WTail(a), WTail(b), IF d < 0 THEN 1 ELSE 0)

WSub(a, b) == WNorm(WSubB(a, b, 0))

\* -1, 0, 1 as a < b, a = b, a > b.
RECURSIVE WCmpFrom(_, _, _)
WCmpFrom(a, b, k) ==
  IF k = 0 THEN 0
  ELSE IF a[k] # b[k] THEN (IF a[k] < b[k] THEN -1 ELSE 1)
  ELSE WCmpFrom(a, b, k - 1)

WCmp(a, b) ==
  IF Len(a) # Len(b) THEN (IF Len(a) < Len(b) THEN -1 ELSE 1)
  ELSE WCmpFrom(a, b, Len(a))

\* a * d + c for a limb d.
RECURSIVE WMulSmall(_, _, _)
WMulSmall(a, d, c) ==
  IF Len(a) = 0 THEN (IF c = 0 THEN <<>> ELSE <<c>>)
  ELSE LET s == Head(a) * d + c
       IN <<s % 4096>> \o WMulSmall(Tail(a), d, s \div 4096)

\* a * 4096^n
WLimbShift(a, n) == IF Len(a) = 0 THEN a ELSE [k \in 1..n |-> 0] \o a

RECURSIVE WMul(_, _)
WMul(a, b) ==
  IF Len(b) = 0 \/ Len(a) = 0 THEN <<>>
  ELSE WAdd(WNorm(WMulSmall(a, Head(b), 0)), WLimbShift(WMul(a, Tail(b)), 1))

\* a * 2^n
WShl(a, n) == WLimbShift(WNorm(WMulSmall(a, 2^(n % 12), 0)), n \div 12)

\* The bits of a wide natural (12 per limb), and the wide natural of a bit vector.
RECURSIVE WBits(_)
WBits(a) == IF Len(a) = 0 THEN <<>> ELSE Bits(Head(a), 12) \o WBits(Tail(a))

RECURSIVE BitsWRaw(_)
BitsWRaw(b) ==
  IF Len(b) <= 12 THEN <<ToInt(b)>>
  ELSE <<ToInt(SubSeq(b, 1, 12))>> \o BitsWRaw(SubSeq(b, 13, Len(b)))

BitsW(b) == WNorm(BitsWRaw(b))

(***************************************************************************)
(* IEEE-754 binary formats.  p is the precision (the hidden bit counted),  *)
(* w the width; the exponent field has w - p bits.                         *)
(***************************************************************************)

F32 == [w |-> 32, p |-> 24, bias |-> 127]

F64 == [w |-> 64, p |-> 53, bias |-> 1023]

ExpBits(fmt) == fmt.w - fmt.p

ExpMax(fmt) == 2^ExpBits(fmt) - 1

\* The exponent of the lowest bit of a subnormal: -149 for f32, -1074 for f64.
QMin(fmt) == 2 - fmt.bias - fmt.p

ExpOf(fmt, x) == Field(x, fmt.p - 1, fmt.w - 2)

FracOf(fmt, x) == SubSeq(x, 1, fmt.p - 1)

SignBit(x) == x[Len(x)]

\* x with its sign bit flipped: -x.
Neg(x) == [k \in 1..Len(x) |-> IF k = Len(x) THEN 1 - x[k] ELSE x[k]]

IsNaN(fmt, x) == ExpOf(fmt, x) = ExpMax(fmt) /\ ~IsZeroBits(FracOf(fmt, x))

IsInf(fmt, x) == ExpOf(fmt, x) = ExpMax(fmt) /\ IsZeroBits(FracOf(fmt, x))

IsFinite(fmt, x) == ExpOf(fmt, x) # ExpMax(fmt)

IsZero(fmt, x) == IsZeroBits(SubSeq(x, 1, fmt.w - 1))

MakeInf(fmt, s) == Zeros(fmt.p - 1) \o Ones(ExpBits(fmt)) \o <<s>>

MakeZero(fmt, s) == Zeros(fmt.w - 1) \o <<s>>

\* An invalid operation that produces +infinity, not a NaN.
QNaNAsInf(fmt) == MakeInf(fmt, 0)

\* The NaN an invalid operation produces.  Its sign and payload are the
\* platform's choice; no claim reads them.
QNaN(fmt) == Zeros(fmt.p - 2) \o <<1>> \o Ones(ExpBits(fmt)) \o <<0>>

\* A finite x is (-1)^sign * Sig * 2^Q, Sig a wide natural.
Sig(fmt, x) ==
  BitsW(IF ExpOf(fmt, x) = 0 THEN FracOf(fmt, x) ELSE FracOf(fmt, x) \o <<1>>)

Q(fmt, x) ==
  IF ExpOf(fmt, x) = 0 THEN QMin(fmt) ELSE ExpOf(fmt, x) - 1 + QMin(fmt)

Max2(a, b) == IF a >= b THEN a ELSE b

Min2(a, b) == IF a <= b THEN a ELSE b

\* (-1)^s * m * 2^q, m a nonzero wide natural, rounded once to the format:
\* to nearest, ties to even; overflow gives an infinity, underflow a
\* subnormal or a zero.
Round(fmt, s, m, q) ==
  LET b == WBits(m)
      L == HighBit(b)
      q1 == Max2(q + L - fmt.p, QMin(fmt))
      k == q1 - q
      kept == IF k <= 0 THEN Zeros(0 - k) \o SubSeq(b, 1, L)
              ELSE IF k >= L THEN <<>>
              ELSE SubSeq(b, k + 1, L)
      rnd == IF k >= 1 /\ k <= L THEN b[k] ELSE 0
      sticky == \E j \in 1..Min2(k - 1, L) : b[j] = 1
      odd == Len(kept) > 0 /\ kept[1] = 1
      M == IF rnd = 1 /\ (sticky \/ odd) THEN BitsInc(kept) ELSE kept
      H == Len(M)
      e == IF H = fmt.p + 1 THEN q1 + 2 - QMin(fmt)
           ELSE IF H = fmt.p THEN q1 + 1 - QMin(fmt)
           ELSE 0
      frac == IF H >= fmt.p THEN SubSeq(M, H - fmt.p + 1, H - 1)
              ELSE M \o Zeros(fmt.p - 1 - H)
  IN IF e >= ExpMax(fmt) THEN MakeInf(fmt, s)
     ELSE frac \o Bits(e, ExpBits(fmt)) \o <<s>>

\* x * y on two values.
FMulV(fmt, x, y) ==
  LET s == (SignBit(x) + SignBit(y)) % 2
  IN IF IsNaN(fmt, x) \/ IsNaN(fmt, y) THEN QNaN(fmt)
     ELSE IF IsInf(fmt, x) \/ IsInf(fmt, y)
       THEN (IF IsZero(fmt, x) \/ IsZero(fmt, y) THEN QNaN(fmt) ELSE MakeInf(fmt, s))
     ELSE IF IsZero(fmt, x) \/ IsZero(fmt, y) THEN MakeZero(fmt, s)
     ELSE Round(fmt, s, WMul(Sig(fmt, x), Sig(fmt, y)), Q(fmt, x) + Q(fmt, y))

\* x * y
FMul(fmt, x, y) == Bind2(x, y, LAMBDA a, b : FMulV(fmt, a, b))

\* (-1)^sa * ma * 2^qa + (-1)^sb * mb * 2^qb for nonzero ma, mb: the exact
\* sum, rounded once.  An exact zero sum is +0.
AddRound(fmt, sa, ma, qa, sb, mb, qb) ==
  LET q == Min2(qa, qb)
      a == WShl(ma, qa - q)
      b == WShl(mb, qb - q)
      c == WCmp(a, b)
  IN IF sa = sb THEN Round(fmt, sa, WAdd(a, b), q)
     ELSE IF c = 0 THEN MakeZero(fmt, 0)
     ELSE IF c = 1 THEN Round(fmt, sa, WSub(a, b), q)
     ELSE Round(fmt, sb, WSub(b, a), q)

\* x + y on two values.
FAddV(fmt, x, y) ==
  IF IsNaN(fmt, x) \/ IsNaN(fmt, y) THEN QNaN(fmt)
  ELSE IF IsInf(fmt, x)
    THEN (IF IsInf(fmt, y) /\ SignBit(x) # SignBit(y) THEN QNaN(fmt) ELSE x)
  ELSE IF IsInf(fmt, y) THEN y
  ELSE IF IsZero(fmt, x) /\ IsZero(fmt, y)
    THEN MakeZero(fmt, IF SignBit(x) = SignBit(y) THEN SignBit(x) ELSE 0)
  ELSE IF IsZero(fmt, x) THEN y
  ELSE IF IsZero(fmt, y) THEN x
  ELSE AddRound(fmt, SignBit(x), Sig(fmt, x), Q(fmt, x),
                SignBit(y), Sig(fmt, y), Q(fmt, y))

\* x + y
FAdd(fmt, x, y) == Bind2(x, y, LAMBDA a, b : FAddV(fmt, a, b))

\* x - y
FSub(fmt, x, y) == FAdd(fmt, x, Neg(y))

\* x <= y: false when either is a NaN, and -0 = +0.
FLe(fmt, x, y) ==
  /\ ~IsNaN(fmt, x)
  /\ ~IsNaN(fmt, y)
  /\ \/ IsZero(fmt, x) /\ IsZero(fmt, y)
     \/ SignBit(x) = 1 /\ SignBit(y) = 0
     \/ SignBit(x) = 0 /\ SignBit(y) = 0 /\ BitsLe(x, y)
     \/ SignBit(x) = 1 /\ SignBit(y) = 1 /\ BitsLe(y, x)

\* One step of long division by d: bring the bit down into the remainder
\* st[2], subtract d if it fits, and put the quotient bit below st[1].
WDivStep(bit, d, st) ==
  LET r2 == WAdd(WShl(st[2], 1), IF bit = 1 THEN <<1>> ELSE <<>>)
  IN IF WCmp(r2, d) >= 0 THEN <<(<<1>>) \o st[1], WSub(r2, d)>>
     ELSE <<(<<0>>) \o st[1], r2>>

\* Long division of the bit vector nb by the wide natural d, bringing down
\* the bits from position hi down to lo: <<quotient bits, remainder>>.
RECURSIVE WDivRec(_, _, _, _, _)
WDivRec(nb, d, hi, lo, st) ==
  IF hi < lo THEN st
  ELSE IF hi = lo THEN WDivStep(nb[hi], d, st)
  ELSE Bind((hi + lo + 1) \div 2, LAMBDA mid :
         Bind(WDivRec(nb, d, hi, mid, st), LAMBDA t :
           WDivRec(nb, d, mid - 1, lo, t)))

\* <<the bits of floor(n / d), n mod d>> for the bits nb of n.
WDivMod(nb, d) == WDivRec(nb, d, Len(nb), 1, <<<<>>, <<>>>>)

\* One step of the square root of n: set bit k of the root r if the square
\* still fits.
WSqrtStep(n, k, r) ==
  LET c == WAdd(r, WShl(<<1>>, k))
  IN IF WCmp(WMul(c, c), n) <= 0 THEN c ELSE r

\* floor(sqrt(n)), deciding the bits of the root from hi down to lo.
RECURSIVE WSqrtRec(_, _, _, _)
WSqrtRec(n, hi, lo, r) ==
  IF hi < lo THEN r
  ELSE IF hi = lo THEN WSqrtStep(n, hi, r)
  ELSE Bind((hi + lo + 1) \div 2, LAMBDA mid :
         Bind(WSqrtRec(n, hi, mid, r), LAMBDA t :
           WSqrtRec(n, mid - 1, lo, t)))

WSqrt(n) == WSqrtRec(n, 6 * Len(n), 0, <<>>)

\* x / y on two values.
FDivV(fmt, x, y) ==
  LET s == (SignBit(x) + SignBit(y)) % 2
      k == 2 * fmt.p + 2
  IN IF IsNaN(fmt, x) \/ IsNaN(fmt, y) THEN QNaN(fmt)
     ELSE IF IsInf(fmt, x)
       THEN (IF IsInf(fmt, y) THEN QNaN(fmt) ELSE MakeInf(fmt, s))
     ELSE IF IsInf(fmt, y) THEN MakeZero(fmt, s)
     ELSE IF IsZero(fmt, y)
       THEN (IF IsZero(fmt, x) THEN QNaN(fmt) ELSE MakeInf(fmt, s))
     ELSE IF IsZero(fmt, x) THEN MakeZero(fmt, s)
     ELSE Bind2(WBits(WShl(Sig(fmt, x), k)), Sig(fmt, y), LAMBDA nb, d :
            Bind(WDivMod(nb, d), LAMBDA r :
              Round(fmt, s,
                    BitsW((<<IF Len(r[2]) > 0 THEN 1 ELSE 0>>) \o r[1]),
                    Q(fmt, x) - Q(fmt, y) - k - 1)))

\* x / y
FDiv(fmt, x, y) == Bind2(x, y, LAMBDA a, b : FDivV(fmt, a, b))

\* sqrt(x), correctly rounded, on a value.
FSqrtV(fmt, x) ==
  LET k == 2 * fmt.p + 2 + (Q(fmt, x) % 2)
  IN IF IsNaN(fmt, x) THEN QNaN(fmt)
     ELSE IF IsZero(fmt, x) THEN x
     ELSE IF SignBit(x) = 1 THEN QNaN(fmt)
     ELSE IF IsInf(fmt, x) THEN x
     ELSE Bind(WShl(Sig(fmt, x), k), LAMBDA n :
            Bind(WSqrt(n), LAMBDA r :
              Round(fmt, 0,
                    WAdd(WShl(r, 1),
                         IF WCmp(WMul(r, r), n) # 0 THEN <<1>> ELSE <<>>),
                    (Q(fmt, x) - k) \div 2 - 1)))

\* sqrt(x), correctly rounded.
FSqrt(fmt, x) == Bind(x, LAMBDA a : FSqrtV(fmt, a))

(***************************************************************************)
(* fmaf (src/math/fmaf.rs)                                                 *)
(***************************************************************************)

\* 4097.0 = (1 << 12) + 1, the factor of a split into 12-bit halves.
SplitFactor4097 == Zeros(11) \o <<1>> \o Zeros(11) \o Bits(139, 8) \o <<0>>

One32 == Zeros(23) \o Bits(127, 8) \o <<0>>

\* fn split(x: f32) -> (f32, f32):
\*   let t = 1e0 * x; let hi = t - (t - x); let lo = x - hi; (hi, lo)
split(x) ==
  Bind(FMul(F32, One32, x), LAMBDA t :
    Bind(FSub(F32, t, FSub(F32, t, x)), LAMBDA hi :
      <<hi, FSub(F32, x, hi)>>))

\* let (hx, lx) = split(x); let (hy, ly) = split(y);
\* ((hx * hy + z) + hx * ly + lx) + lx * ly
fmaf(x, y, z) ==
  Bind2(split(x), split(y), LAMBDA sx, sy :
    FAdd(F32,
         FAdd(F32,
              FAdd(F32, FAdd(F32, FMul(F32, sx[1], sy[1]), z),
                   FMul(F32, sx[1], sy[2])),
              sx[2]),
         FMul(F32, sx[2], sy[2])))

\* The reference the tests compare with (extern "C" fmaf): x * y + z exactly,
\* rounded once.
FmaRef(x, y, z) ==
  LET s == (SignBit(x) + SignBit(y)) % 2
  IN IF IsNaN(F32, x) \/ IsNaN(F32, y) \/ IsNaN(F32, z) THEN QNaN(F32)
     ELSE IF IsInf(F32, x) \/ IsInf(F32, y)
       THEN (IF IsZero(F32, x) \/ IsZero(F32, y) THEN QNaN(F32)
             ELSE IF IsInf(F32, z) /\ SignBit(z) # s THEN QNaN(F32)
             ELSE MakeInf(F32, s))
     ELSE IF IsInf(F32, z) THEN z
     ELSE IF IsZero(F32, x) \/ IsZero(F32, y)
       THEN (IF IsZero(F32, z)
               THEN MakeZero(F32, IF SignBit(z) = s THEN s ELSE 0)
             ELSE z)
     ELSE IF IsZero(F32, z)
       THEN Round(F32, s, WMul(Sig(F32, x), Sig(F32, y)), Q(F32, x) + Q(F32, y))
     ELSE AddRound(F32, s, WMul(Sig(F32, x), Sig(F32, y)), Q(F32, x) + Q(F32, y),
                   SignBit(z), Sig(F32, z), Q(F32, z))

\* The distance of two finite values, counted in representable values
\* between them, is at most n.  The two zeros are the same value.  This is
\* what tests::__equal__(x, y, n) measures, except that __equal__ also
\* rejects every pair of different sign.
WithinUlps(x, y, n) ==
  LET mx == ToInt(SubSeq(x, 1, 31))
      my == ToInt(SubSeq(y, 1, 31))
  IN /\ IsFinite(F32, x)
     /\ IsFinite(F32, y)
     /\ IF SignBit(x) = SignBit(y)
          THEN (IF mx >= my THEN mx - my ELSE my - mx) <= n
          ELSE mx <= n /\ my <= n /\ mx + my <= n

(***************************************************************************)
(* Inputs.  A pattern is built from its sign, biased exponent field and    *)
(* fraction field; the exponent fields sampled lie within ExpSpan of the   *)
(* values the code branches on.                                            *)
(***************************************************************************)

ExpSpan == 2

\* Fraction fields of w bits: zero, all ones, every single bit, and every
\* two neighbouring bits.
Fracs(w) ==
  {Zeros(w), Ones(w)}
    \cup {[j \in 1..w |-> IF j = k THEN 1 ELSE 0] : k \in 1..w}
    \cup {[j \in 1..w |-> IF j \in {k, k + 1} THEN 1 ELSE 0] : k \in 1..(w - 1)}

Near(c) == (c - ExpSpan)..(c + ExpSpan)

MkF64(s, e, f) == f \o Bits(e, 11) \o <<s>>

\* Exponent fields around 0 (zero, subnormal), 0x3ff (1.0), 0x3ff + 52 (the
\* last binade with a fractional bit) and 0x7ff (infinity, NaN).
Exps64 == (Near(0) \cup Near(1023) \cup Near(1075) \cup Near(2047)) \cap (0..2047)

F64Inputs == {MkF64(s, e, f) : s \in {0, 1}, e \in Exps64, f \in Fracs(52)}

MkF32(s, e, f) == f \o Bits(e, 8) \o <<s>>

Exps32 == (Near(0) \cup Near(127) \cup Near(150) \cup Near(255)) \cap (0..255)

F32Patterns == {MkF32(s, e, f) : s \in {0, 1}, e \in Exps32, f \in Fracs(23)}

\* The operands the fmaf tests use (NAN, -NAN, INFINITY, NEG_INFINITY, MAX,
\* MIN_POSITIVE, F32_MIN_SUBNORM, zeros and small integers), and the two
\* neighbours of 1.0.
FmafInputs ==
  {MkF32(s, 0, Zeros(23)) : s \in {0, 1}}
    \cup {MkF32(s, 127, Zeros(23)) : s \in {0, 1}}
    \cup {MkF32(s, 255, Zeros(22) \o <<1>>) : s \in {0, 1}}
    \cup {MkF32(s, 255, Zeros(23)) : s \in {0, 1}}
    \cup {MkF32(0, 127, <<1>> \o Zeros(22)), MkF32(0, 126, Ones(23)),
          MkF32(0, 128, Zeros(22) \o <<1>>), MkF32(0, 254, Ones(23)),
          MkF32(0, 1, Zeros(23)), MkF32(0, 0, <<1>> \o Zeros(22))}

(***************************************************************************)
(* trunc (src/math/trunc.rs)                                               *)
(***************************************************************************)

\* let mut e: i64 = (i >> 52 & 0x7ff) as i64 - 0x3ff + 12;
TruncExp(i) == Field(i, 52, 62) - 1023 + 12

TruncShiftZero(i) == IF TruncExp(i) < 12 THEN 0 ELSE TruncExp(i)

\* if e < 12 { e = 1; }
TruncShift(i) == IF TruncExp(i) < 12 THEN 1 ELSE TruncExp(i)

TruncMaskNarrow(i) == Shr(Ones(64), TruncShift(i) + 1)

TruncMaskWide(i) == Shr(Ones(64), TruncShift(i) - 1)

\* m = -1i64 as u64 >> e;
TruncMask(i) == Shr(Ones(64), TruncShift(i))

\* The path of a trunc whose first early return also takes every e < 12.
TruncRouteSmallEarly(x) ==
  IF TruncExp(x) >= 52 + 12 \/ TruncExp(x) < 12 THEN "large"
  ELSE IF IsZeroBits(BitAnd(x, TruncMask(x))) THEN "integral"
  ELSE "masked"

\* The path trunc takes: the first early return, the second one, or the
\* masking of the fractional bits.
TruncRoute(x) ==
  IF TruncExp(x) >= 52 + 12 THEN "large"
  ELSE IF IsZeroBits(BitAnd(x, TruncMask(x))) THEN "integral"
  ELSE "masked"

truncSetBits(x) ==
  IF TruncExp(x) >= 52 + 12 THEN x
  ELSE IF IsZeroBits(BitAnd(x, TruncMask(x))) THEN x
  ELSE BitOr(x, TruncMask(x))

truncFlipBits(x) ==
  IF TruncExp(x) >= 52 + 12 THEN x
  ELSE IF IsZeroBits(BitAnd(x, TruncMask(x))) THEN x
  ELSE BitXor(x, TruncMask(x))

trunc(x) ==
  IF TruncExp(x) >= 52 + 12 THEN x
  ELSE IF IsZeroBits(BitAnd(x, TruncMask(x))) THEN x
  ELSE BitAnd(x, BitNot(TruncMask(x)))

(***************************************************************************)
(* fabsf (src/math/fabsf.rs), the portable path                            *)
(***************************************************************************)

AbsMaskAll == Ones(32)

\* 0x7fffffff
AbsMask32 == Ones(31) \o <<0>>

fabsf(x) == BitAnd(x, AbsMask32)

(***************************************************************************)
(* powi (src/math/powi.rs)                                                 *)
(*                                                                         *)
(* The table is a Vec, modelled as a sequence: powers[j] of the code is    *)
(* powers[j + 1] here.  `let mut powers: Vec<f64>;` declares the vector    *)
(* with no initialiser; the two pushes that follow are modelled on the     *)
(* empty vector.  An index outside the vector panics.                      *)
(***************************************************************************)

MaxExp == 9

\* -1.0
NegOne64 == MkF64(1, 1023, Zeros(52))

\* 1. (powers.push(1.) and return 1.)
One64 == MkF64(0, 1023, Zeros(52))

Zero64 == Zeros(64)

\* The bases of the tests (2.0, -1.0) and zeros, 1.0, 0.5, 1.5, 3.0, -2.0,
\* the infinities and a NaN.
PowiBases ==
  {MkF64(s, e, Zeros(52)) : s \in {0, 1}, e \in {0, 1023, 1024, 2047}}
    \cup {MkF64(0, 1022, Zeros(52)), MkF64(0, 1023, Zeros(51) \o <<1>>),
          MkF64(0, 1024, Zeros(51) \o <<1>>), MkF64(0, 2047, Zeros(51) \o <<1>>)}

\* The exponents: every one up to MaxExp, and the 20 of the tests.
PowiExps == (0..MaxExp) \cup {20}

\* powers[j] is inside the vector.
InTable(powers, j) == j + 1 \in 1..Len(powers)

\* The two pushes in the other order.
PowiTableSwapped(x) == Append(Append(<<>>, x), One64)

\* powers.push(1.); powers.push(x);
PowiTable(x) == Append(Append(<<>>, One64), x)

\* while i < exp / 2
PowiLoopCond(i, exp) == i < exp \div 2

\* if powers[2 * i] <= 0. { powers[2 * i] = powers[i] * powers[i]; }
PowiFill(powers, i) ==
  IF FLe(F64, powers[2 * i + 1], Zero64)
    THEN [powers EXCEPT ![2 * i + 1] = FMul(F64, powers[i + 1], powers[i + 1])]
    ELSE powers

\* The table entry, whatever exp is.
PowiResultEntry(powers, i, exp) == powers[i + 1]

\* if exp <= i { return powers[i] } else { 0. }
PowiResult(powers, i, exp) == IF exp <= i THEN powers[i + 1] ELSE Zero64

(***************************************************************************)
(* acoshf (src/math/acoshf.rs)                                             *)
(*                                                                         *)
(* sqrtf, logf and log1pf come from the rest of the library.  sqrtf is the *)
(* correctly rounded square root.  Of logf and log1pf only the kind of     *)
(* result is modelled: "nan", "-inf", "+inf" or "finite".                  *)
(***************************************************************************)

Two32 == MkF32(0, 128, Zeros(23))

sqrtf(v) == FSqrt(F32, v)

\* ln(v): NaN for a NaN and for v < 0, -inf for both zeros, +inf for +inf.
logf(v) ==
  IF IsNaN(F32, v) \/ (SignBit(v) = 1 /\ ~IsZero(F32, v)) THEN "nan"
  ELSE IF IsZero(F32, v) THEN "-inf"
  ELSE IF IsInf(F32, v) THEN "+inf"
  ELSE "finite"

\* ln(1 + v): NaN for a NaN and for v < -1, -inf for -1, +inf for +inf.
log1pf(v) ==
  IF IsNaN(F32, v) \/ ~FLe(F32, Neg(One32), v) THEN "nan"
  ELSE IF v = Neg(One32) THEN "-inf"
  ELSE IF IsInf(F32, v) THEN "+inf"
  ELSE "finite"

\* let a = u & 0x7fffffff;
AcoshfA(x) == ToInt(SubSeq(x, 1, 31))

\* A limit that counts n in half binades.
AcoshfLimitHalf(n) == 127 * 2^23 + n * 2^22

\* 0x3f800000 + (n << 23)
AcoshfLimit(n) == 127 * 2^23 + n * 2^23

\* The formula the two tests on a select.
AcoshfBranch(x) ==
  IF AcoshfA(x) < AcoshfLimit(1) THEN "log1pf"
  ELSE IF AcoshfA(x) < AcoshfLimit(12) THEN "logf"
  ELSE "logf+LN2"

\* x - 1.0 + sqrtf((x - 1.0) * (x - 1.0) + 2.0 * (x - 1.0))
AcoshfSmallArg(x) ==
  Bind(FSub(F32, x, One32), LAMBDA t :
    FAdd(F32, t, sqrtf(FAdd(F32, FMul(F32, t, t), FMul(F32, Two32, t)))))

\* 2.0 * x - 1.0 / (x + sqrtf(x * x - 1.0))
AcoshfMidArg(x) ==
  FSub(F32, FMul(F32, Two32, x),
       FDiv(F32, One32, FAdd(F32, x, sqrtf(FSub(F32, FMul(F32, x, x), One32)))))

\* The argument handed to log1pf or logf.
AcoshfArg(x) ==
  IF AcoshfBranch(x) = "log1pf" THEN AcoshfSmallArg(x)
  ELSE IF AcoshfBranch(x) = "logf" THEN AcoshfMidArg(x)
  ELSE x

\* logf(x) + LN2, on the kind of logf(x): LN2 is finite, and the finite
\* values of logf are below 89.
AddLn2(k) == k

\* The kind of acoshf(x), given the argument v of its logarithm.
AcoshfKind(x, v) ==
  IF AcoshfBranch(x) = "log1pf" THEN log1pf(v)
  ELSE IF AcoshfBranch(x) = "logf" THEN logf(v)
  ELSE AddLn2(logf(v))

\* Exponent fields around 0, 0x7f (1.0, and 2.0 where the first test
\* changes), 0x7f + 12 (4096.0, the second test) and 0xff.
AcoshfExps == (Near(0) \cup Near(127) \cup Near(139) \cup Near(255)) \cap (0..255)

AcoshfInputs == {MkF32(s, e, f) : s \in {0, 1}, e \in AcoshfExps, f \in Fracs(23)}

(***************************************************************************)
(* exp2f (src/math/exp2f.rs)                                               *)
(*                                                                         *)
(* powf comes from the rest of the library.  Nothing is assumed of it: a   *)
(* call of it may return any value of PowfResults.                         *)
(***************************************************************************)

\* The arguments with base and exponent exchanged.
Exp2fPowfArgsSwapped(x) == <<x, Two32>>

\* powf(2f32, x): the arguments handed to powf.
Exp2fPowfArgs(x) == <<Two32, x>>

\* exp2f returns the value of the call of powf.
Exp2fResult(r) == r

Exp2fInputs == FmafInputs

\* The values powf may return: zeros, ones, NaNs and infinities of either
\* sign, 3.0, the neighbours of 1.0, MAX, MIN_POSITIVE and a subnormal.
PowfResults == FmafInputs

(***************************************************************************)
(* The calls.  A call of a function without loops is one step; powi takes  *)
(* one step to enter, one for each test of the loop condition that finds   *)
(* it true, and one to leave the loop and return.                          *)
(***************************************************************************)

TruncCall ==
  /\ pc = "idle"
  /\ \E x \in F64Inputs :
       /\ fn' = "trunc"
       /\ args' = <<x>>
       /\ ret' = <<trunc(x)>>
       /\ loc' = [route |-> TruncRoute(x),
                  e |-> IF TruncExp(x) >= 52 + 12 THEN TruncExp(x) ELSE TruncShift(x)]
  /\ pc' = "done"

FabsfCall ==
  /\ pc = "idle"
  /\ \E x \in F32Patterns :
       /\ fn' = "fabsf"
       /\ args' = <<x>>
       /\ ret' = <<fabsf(x)>>
       /\ loc' = <<>>
  /\ pc' = "done"

Init ==
  /\ fn = "none"
  /\ args = <<>>
  /\ pc = "idle"
  /\ ret = <<>>
  /\ loc = <<>>

Return ==
  /\ pc = "done"
  /\ fn' = "none"
  /\ args' = <<>>
  /\ pc' = "idle"
  /\ ret' = <<>>
  /\ loc' = <<>>

FmafCall ==
  /\ pc = "idle"
  /\ \E x \in FmafInputs, y \in FmafInputs, z \in FmafInputs :
       /\ fn' = "fmaf"
       /\ args' = <<x, y, z>>
       /\ ret' = <<fmaf(x, y, z)>>
       /\ loc' = <<>>
  /\ pc' = "done"

\* exp2f: the call of powf, whatever it returns, and the return.
Exp2fCall ==
  /\ pc = "idle"
  /\ \E x \in Exp2fInputs, r \in PowfResults :
       /\ fn' = "exp2f"
       /\ args' = <<x>>
       /\ loc' = [powf_args |-> Exp2fPowfArgs(x), powf_ret |-> r]
       /\ ret' = <<Exp2fResult(r)>>
  /\ pc' = "done"

\* A call of split alone, on any pattern.
SplitCall ==
  /\ pc = "idle"
  /\ \E x \in F32Patterns :
       /\ fn' = "split"
       /\ args' = <<x>>
       /\ ret' = split(x)
       /\ loc' = <<>>
  /\ pc' = "done"

\* powi, lines 6-11: build the table, return 1 for exp = 0, else i = 1.
PowiCall ==
  /\ pc = "idle"
  /\ \E x \in PowiBases, exp \in PowiExps :
       /\ fn' = "powi"
       /\ args' = <<x, exp>>
       /\ IF exp = 0
            THEN /\ ret' = <<One64>>
                 /\ loc' = <<>>
                 /\ pc' = "done"
            ELSE /\ ret' = <<>>
                 /\ loc' = [powers |-> PowiTable(x), i |-> 1]
                 /\ pc' = "loop"

\* powi, lines 12-17: one iteration of the loop.  The read of powers[2 * i]
\* panics when 2 * i is outside the table.
PowiLoop ==
  /\ fn = "powi"
  /\ pc = "loop"
  /\ PowiLoopCond(loc.i, args[2])
  /\ IF InTable(loc.powers, 2 * loc.i)
       THEN /\ loc' = [powers |-> PowiFill(loc.powers, loc.i), i |-> loc.i + 1]
            /\ pc' = "loop"
       ELSE /\ loc' = loc
            /\ pc' = "panicked"
  /\ UNCHANGED <<fn, args, ret>>

\* powi, lines 18-22: the loop condition is false; return.
PowiExit ==
  /\ fn = "powi"
  /\ pc = "loop"
  /\ ~PowiLoopCond(loc.i, args[2])
  /\ IF args[2] <= loc.i /\ ~InTable(loc.powers, loc.i)
       THEN /\ ret' = ret
            /\ pc' = "panicked"
       ELSE /\ ret' = <<PowiResult(loc.powers, loc.i, args[2])>>
            /\ pc' = "done"
  /\ UNCHANGED <<fn, args, loc>>

(***************************************************************************)
(* Concurrent calls of powi.  NumCalls threads call powi at once; the      *)
(* steps of the calls interleave in any order.  loc[t] holds the locals of *)
(* call t (its position, powers, i and the value returned); the table of a *)
(* call is dropped when the call returns or panics.                        *)
(***************************************************************************)

NumCalls == 2

Calls == 1..NumCalls

ParMaxExp == 4

\* The arguments of a concurrent call: 2.0, -1.0 or a NaN, to a power of at
\* most ParMaxExp.
ParArgs ==
  {<<x, exp>> : x \in {MkF64(0, 1024, Zeros(52)), NegOne64,
                       MkF64(0, 2047, Zeros(51) \o <<1>>)},
                exp \in 0..ParMaxExp}

\* A table that all calls share: the one of the first call.
ParTableShared(l, t) == l[1].powers

\* The table call t reads and writes: its own local.
ParTable(l, t) == l[t].powers

\* powi, lines 6-11, for one call.
ParEnter(a) ==
  IF a[2] = 0
    THEN [pc |-> "done", powers |-> <<>>, i |-> 0, ret |-> <<One64>>]
    ELSE [pc |-> "loop", powers |-> PowiTable(a[1]), i |-> 1, ret |-> <<>>]

PowiParStart ==
  /\ pc = "idle"
  /\ \E a \in [Calls -> ParArgs] :
       /\ fn' = "powi_par"
       /\ args' = a
       /\ loc' = [t \in Calls |-> ParEnter(a[t])]
  /\ ret' = <<>>
  /\ pc' = "running"

\* powi, lines 12-17, for call t.
PowiParLoop(t) ==
  /\ fn = "powi_par"
  /\ pc = "running"
  /\ loc[t].pc = "loop"
  /\ PowiLoopCond(loc[t].i, args[t][2])
  /\ IF InTable(ParTable(loc, t), 2 * loc[t].i)
       THEN loc' = [loc EXCEPT ![t].powers = PowiFill(ParTable(loc, t), loc[t].i),
                               ![t].i = loc[t].i + 1]
       ELSE loc' = [loc EXCEPT ![t].pc = "panicked", ![t].powers = <<>>]
  /\ UNCHANGED <<fn, args, pc, ret>>

\* powi, lines 18-22, for call t.
PowiParExit(t) ==
  /\ fn = "powi_par"
  /\ pc = "running"
  /\ loc[t].pc = "loop"
  /\ ~PowiLoopCond(loc[t].i, args[t][2])
  /\ IF args[t][2] <= loc[t].i /\ ~InTable(ParTable(loc, t), loc[t].i)
       THEN loc' = [loc EXCEPT ![t].pc = "panicked", ![t].powers = <<>>]
       ELSE loc' = [loc EXCEPT
                      ![t].pc = "done",
                      ![t].ret = <<PowiResult(ParTable(loc, t), loc[t].i,
                                              args[t][2])>>,
                      ![t].powers = <<>>]
  /\ UNCHANGED <<fn, args, pc, ret>>

\* Every call is over: the caller has the outcomes.
PowiParJoin ==
  /\ fn = "powi_par"
  /\ pc = "running"
  /\ \A t \in Calls : loc[t].pc \in {"done", "panicked"}
  /\ ret' = [t \in Calls |-> <<loc[t].pc, loc[t].ret>>]
  /\ pc' = "done"
  /\ UNCHANGED <<fn, args, loc>>

AcoshfCall ==
  /\ pc = "idle"
  /\ \E x \in AcoshfInputs :
       /\ fn' = "acoshf"
       /\ args' = <<x>>
       /\ loc' = [branch |-> AcoshfBranch(x), arg |-> AcoshfArg(x)]
       /\ ret' = <<AcoshfKind(x, loc'.arg)>>
  /\ pc' = "done"

Next ==
  \/ TruncCall
  \/ FabsfCall
  \/ FmafCall
  \/ SplitCall
  \/ PowiCall
  \/ PowiLoop
  \/ PowiExit
  \/ PowiParStart
  \/ \E t \in Calls : PowiParLoop(t)
  \/ \E t \in Calls : PowiParExit(t)
  \/ PowiParJoin
  \/ AcoshfCall
  \/ Exp2fCall
  \/ Return

Spec == Init /\ [][Next]_vars

NextTrunc == TruncCall \/ Return

SpecTrunc == Init /\ [][NextTrunc]_vars

NextFabsf == FabsfCall \/ Return

SpecFabsf == Init /\ [][NextFabsf]_vars

(***************************************************************************)
(* Classification of bit patterns, read off the fields.                    *)
(***************************************************************************)

ExpField64(x) == Field(x, 52, 62)

IsNaN64(x) == ExpField64(x) = 2047 /\ ~IsZeroBits(SubSeq(x, 1, 52))

IsInf64(x) == ExpField64(x) = 2047 /\ IsZeroBits(SubSeq(x, 1, 52))

IsFinite64(x) == ExpField64(x) # 2047

IsZero64(x) == IsZeroBits(SubSeq(x, 1, 63))

\* A double that is an integer: a signed zero, or unbiased exponent E >= 0
\* and the low max(0, 52 - E) fraction bits zero.
IsIntegral64(x) ==
  \/ IsZero64(x)
  \/ /\ IsFinite64(x)
     /\ ExpField64(x) >= 1023
     /\ \A k \in 1..(52 - (ExpField64(x) - 1023)) : x[k] = 0

TruncDone == fn = "trunc" /\ pc = "done"

(***************************************************************************)
(* trunc: the claims                                                       *)
(***************************************************************************)

\* C4: for every finite double x, trunc(x) is an integer value: a signed
\* zero, or unbiased exponent E >= 0 with the low max(0, 52 - E) fraction
\* bits all zero.
C4_TruncIsInteger ==
  (TruncDone /\ IsFinite64(args[1])) => IsIntegral64(ret[1])

\* A finite input with fractional bits, which trunc cleared.
C4_Witness ==
  /\ TruncDone
  /\ IsFinite64(args[1])
  /\ ~IsIntegral64(args[1])
  /\ ExpField64(args[1]) >= 1023
  /\ loc.route = "masked"
  /\ ret[1] # args[1]

\* C5: for every 64-bit pattern x, the sign bit of trunc(x) is that of x.
C5_TruncKeepsSign == TruncDone => SignBit(ret[1]) = SignBit(args[1])

\* A negative input below 1 in magnitude, truncated to -0.
C5_Witness ==
  /\ TruncDone
  /\ SignBit(args[1]) = 1
  /\ loc.route = "masked"
  /\ ExpField64(args[1]) < 1023
  /\ IsZero64(ret[1])

\* C6: for every non-NaN x, the low 63 bits of trunc(x), as an unsigned
\* integer, are not greater than the low 63 bits of x.
C6_TruncNotLarger ==
  (TruncDone /\ ~IsNaN64(args[1]))
    => BitsLe(SubSeq(ret[1], 1, 63), SubSeq(args[1], 1, 63))

\* An input whose magnitude trunc made strictly smaller.
C6_Witness ==
  /\ TruncDone
  /\ ~IsNaN64(args[1])
  /\ BitsLt(SubSeq(ret[1], 1, 63), SubSeq(args[1], 1, 63))

\* The inputs C7 names: zeros, infinities, NaNs and the finite integers.
C7_Unchanged(x) == IsZero64(x) \/ IsInf64(x) \/ IsNaN64(x) \/ IsIntegral64(x)

\* C7: trunc(x) has the bit pattern of x whenever x is a zero, an infinity,
\* a NaN or a finite value with no fractional bits.
C7_TruncFixes == (TruncDone /\ C7_Unchanged(args[1])) => ret[1] = args[1]

\* A nonzero finite integer below 2^52 that went through the mask test, and
\* a NaN, are among the inputs returned unchanged.
C7_Witness ==
  /\ TruncDone
  /\ IsIntegral64(args[1])
  /\ ~IsZero64(args[1])
  /\ loc.route = "integral"
  /\ ret[1] = args[1]

\* C8: trunc(trunc(x)) has the bit pattern of trunc(x), for every x.
C8_TruncIdempotent == TruncDone => trunc(ret[1]) = ret[1]

\* A result that differs from its input, and is fixed by a second trunc.
C8_Witness ==
  /\ TruncDone
  /\ loc.route = "masked"
  /\ ret[1] # args[1]
  /\ ~IsZero64(ret[1])
  /\ trunc(ret[1]) = ret[1]

(***************************************************************************)
(* fabsf: the claims                                                       *)
(***************************************************************************)

IsNaN32(x) == Field(x, 23, 30) = 255 /\ ~IsZeroBits(SubSeq(x, 1, 23))

FabsfDone == fn = "fabsf" /\ pc = "done"

\* C9: for every 32-bit pattern x, fabsf(x) has sign bit 0 and the other 31
\* bits of x, so fabsf(-0.0) is +0.0, a NaN keeps its payload, and
\* fabsf(x) = fabsf(-x) bit for bit.
C9_FabsfClearsSign ==
  FabsfDone =>
    /\ SignBit(ret[1]) = 0
    /\ SubSeq(ret[1], 1, 31) = SubSeq(args[1], 1, 31)
    /\ fabsf(Neg(args[1])) = ret[1]

\* A negative NaN, whose payload is kept and whose sign is cleared.
C9_Witness ==
  /\ FabsfDone
  /\ SignBit(args[1]) = 1
  /\ IsNaN32(args[1])
  /\ IsNaN32(ret[1])
  /\ ret[1] # args[1]

NextFmaf == FmafCall \/ Return

SpecFmaf == Init /\ [][NextFmaf]_vars

NextSplit == SplitCall \/ Return

SpecSplit == Init /\ [][NextSplit]_vars

NextExp2f == Exp2fCall \/ Return

SpecExp2f == Init /\ [][NextExp2f]_vars

NextFmafSplit == FmafCall \/ SplitCall \/ Return

SpecFmafSplit == Init /\ [][NextFmafSplit]_vars

NextPowi == PowiCall \/ PowiLoop \/ PowiExit \/ Return

SpecPowi == Init /\ [][NextPowi]_vars

NextPowiPar ==
  \/ PowiParStart
  \/ \E t \in Calls : PowiParLoop(t)
  \/ \E t \in Calls : PowiParExit(t)
  \/ PowiParJoin
  \/ Return

SpecPowiPar == Init /\ [][NextPowiPar]_vars

NextAcoshf == AcoshfCall \/ Return

SpecAcoshf == Init /\ [][NextAcoshf]_vars

(***************************************************************************)
(* fmaf: the claims                                                        *)
(***************************************************************************)

FmafDone == fn = "fmaf" /\ pc = "done"

FmafFinite ==
  /\ IsFinite(F32, args[1])
  /\ IsFinite(F32, args[2])
  /\ IsFinite(F32, args[3])
  /\ IsFinite(F32, FmaRef(args[1], args[2], args[3]))

\* C1: for all finite x, y, z whose exact x*y+z does not overflow,
\* fmaf(x, y, z) is within 1 ULP of x*y+z
\* computed exactly and rounded once to single precision.
C1_FmafWithinOneUlp ==
  (FmafDone /\ FmafFinite)
    => WithinUlps(ret[1], FmaRef(args[1], args[2], args[3]), 1)

(***************************************************************************)
(* powi: the claims                                                        *)
(***************************************************************************)

\* x raised to the n-th power, by n multiplications in double precision.
\* The powers of the bases of PowiBases are exact for every n of PowiExps
\* (or overflow to an infinity, or are NaN).
RECURSIVE PowRef(_, _)
PowRef(x, n) == IF n = 0 THEN One64 ELSE FMul(F64, PowRef(x, n - 1), x)

\* Two doubles are the same value: both NaN, both zero, or the same bits.
SameValue64(a, b) ==
  \/ IsNaN64(a) /\ IsNaN64(b)
  \/ IsZero64(a) /\ IsZero64(b)
  \/ a = b

PowiOver == fn = "powi" /\ pc \in {"done", "panicked"}

\* C2: for every base x and every exponent n >= 0, a call powi(x, n) that
\* is over has returned x raised to the n-th power (so powi(2, 20) is
\* 1048576, powi(-1, 9) is -1 and powi(-1, 2) is 1).
C2_PowiIsPower ==
  PowiOver => /\ pc = "done"
              /\ SameValue64(ret[1], PowRef(args[1], args[2]))

\* C3: no call of powi panics: whenever the loop is about to run an
\* iteration, the index 2 * i it reads and writes is inside the table, and
\* the index i it returns is inside the table.
C3_PowiIndexInTable ==
  /\ pc # "panicked"
  /\ (fn = "powi" /\ pc = "loop")
       => IF PowiLoopCond(loc.i, args[2])
            THEN InTable(loc.powers, 2 * loc.i)
            ELSE InTable(loc.powers, loc.i)

(***************************************************************************)
(* acoshf: the claims                                                      *)
(***************************************************************************)

AcoshfDone == fn = "acoshf" /\ pc = "done"

\* x < 1.0 (false for a NaN).
BelowOne32(x) == ~IsNaN(F32, x) /\ ~FLe(F32, One32, x)

\* C10: for every x < 1 (negative values, zeros and -infinity included) and
\* for every NaN x, acoshf(x) is NaN, in each of the three branches.
C10_AcoshfNaNBelowOne ==
  (AcoshfDone /\ (IsNaN(F32, args[1]) \/ BelowOne32(args[1])))
    => ret[1] = "nan"

\* The three ranges of a = bits(x) & 0x7fffffff: below 0x40000000, from
\* there to below 0x45800000, and from 0x45800000 up.
AcoshfRanges(x) ==
  <<AcoshfA(x) < 1073741824,
    1073741824 <= AcoshfA(x) /\ AcoshfA(x) < 1166016512,
    AcoshfA(x) >= 1166016512>>

AcoshfFormulas == <<"log1pf", "logf", "logf+LN2">>

\* C11: acoshf picks its formula from a alone (the sign of x plays no part),
\* exactly one of the three ranges of a applies, the formula used is the one
\* of that range, and every infinity and NaN uses logf(x) + LN2.
C11_AcoshfRouting ==
  AcoshfDone =>
    /\ \E k \in 1..3 :
         /\ AcoshfRanges(args[1])[k]
         /\ \A j \in 1..3 : AcoshfRanges(args[1])[j] => j = k
         /\ loc.branch = AcoshfFormulas[k]
    /\ AcoshfBranch(Neg(args[1])) = loc.branch
    /\ ~IsFinite(F32, args[1]) => loc.branch = "logf+LN2"

\* -2.0, the first pattern of the middle range, with the sign set.
C11_Witness ==
  /\ AcoshfDone
  /\ AcoshfA(args[1]) = 1073741824
  /\ SignBit(args[1]) = 1
  /\ loc.branch = "logf"

(***************************************************************************)
(* fmaf: special operands                                                  *)
(***************************************************************************)

\* The sign of the product x * y.
ProdSign(x, y) == (SignBit(x) + SignBit(y)) % 2

\* The operand triples on which a fused multiply-add is NaN: a NaN operand,
\* infinity times zero, or an infinite product and the opposite infinity z.
FmaInvalid(x, y, z) ==
  \/ IsNaN(F32, x) \/ IsNaN(F32, y) \/ IsNaN(F32, z)
  \/ IsInf(F32, x) /\ IsZero(F32, y)
  \/ IsZero(F32, x) /\ IsInf(F32, y)
  \/ /\ IsInf(F32, x) \/ IsInf(F32, y)
     /\ IsInf(F32, z)
     /\ SignBit(z) # ProdSign(x, y)

\* C12: fmaf(x, y, z) is NaN whenever the reference fused multiply-add is:
\* when an operand is a NaN, when x * y is infinity times zero, and when
\* x * y is an infinity and z the infinity of the opposite sign.
C12_FmafNaN ==
  (FmafDone /\ (FmaInvalid(args[1], args[2], args[3])
                  \/ IsNaN(F32, FmaRef(args[1], args[2], args[3]))))
    => IsNaN(F32, ret[1])

\* No NaN operand: an infinite product, and z the opposite infinity.
C12_Witness ==
  /\ FmafDone
  /\ IsInf(F32, args[1])
  /\ IsFinite(F32, args[2]) /\ ~IsZero(F32, args[2])
  /\ IsInf(F32, args[3])
  /\ SignBit(args[3]) # ProdSign(args[1], args[2])
  /\ IsNaN(F32, ret[1])

\* An infinite factor, the other factor neither zero nor NaN, and z neither
\* a NaN nor the infinity opposite to the product.
FmaInfinite(x, y, z) ==
  /\ IsInf(F32, x) \/ IsInf(F32, y)
  /\ ~IsZero(F32, x) /\ ~IsNaN(F32, x)
  /\ ~IsZero(F32, y) /\ ~IsNaN(F32, y)
  /\ ~IsNaN(F32, z)
  /\ ~(IsInf(F32, z) /\ SignBit(z) # ProdSign(x, y))

\* C13: when x or y is infinite, the other factor is neither zero nor NaN
\* and z is neither NaN nor the infinity opposite to x * y, fmaf(x, y, z) is
\* the infinity with the sign of x * y, as the reference returns.
C13_FmafInfinity ==
  (FmafDone /\ FmaInfinite(args[1], args[2], args[3]))
    => /\ ret[1] = MakeInf(F32, ProdSign(args[1], args[2]))
       /\ ret[1] = FmaRef(args[1], args[2], args[3])

(***************************************************************************)
(* split: the claims                                                       *)
(***************************************************************************)

SplitDone == fn = "split" /\ pc = "done"

\* The magnitude of the finite x in units of 2^q0, if its sign is s, else 0.
ExactPart(x, q0, s) ==
  IF SignBit(x) = s THEN WShl(Sig(F32, x), Q(F32, x) - q0) ELSE <<>>

\* a + b = c in exact arithmetic, for finite a, b, c: the terms of each sign
\* on either side of a + b - c = 0 add up to the same natural.
ExactSumIs(a, b, c) ==
  /\ IsFinite(F32, a) /\ IsFinite(F32, b) /\ IsFinite(F32, c)
  /\ Bind(Min2(Q(F32, a), Min2(Q(F32, b), Q(F32, c))), LAMBDA q0 :
       WCmp(WAdd(WAdd(ExactPart(a, q0, 0), ExactPart(b, q0, 0)),
                 ExactPart(c, q0, 1)),
            WAdd(WAdd(ExactPart(a, q0, 1), ExactPart(b, q0, 1)),
                 ExactPart(c, q0, 0))) = 0)

\* C14: for every finite x, the pair (hi, lo) of split(x) satisfies
\* hi + lo = x in exact arithmetic.
C14_SplitSumExact ==
  (SplitDone /\ IsFinite(F32, args[1])) => ExactSumIs(ret[1], ret[2], args[1])

\* A large finite x with a full significand, split into x and 0.
C14_Witness ==
  /\ SplitDone
  /\ ExpOf(F32, args[1]) = 254
  /\ FracOf(F32, args[1]) = Ones(23)
  /\ IsFinite(F32, ret[1])
  /\ IsFinite(F32, ret[2])

\* The significand of a finite x as bits, the implicit bit included.
SigBits32(x) ==
  IF ExpOf(F32, x) = 0 THEN FracOf(F32, x) ELSE FracOf(F32, x) \o <<1>>

\* The number of significant bits of a finite x: from the highest set bit of
\* its significand down to the lowest, 0 for a zero.
SigWidth32(x) ==
  IF IsZeroBits(SigBits32(x)) THEN 0
  ELSE HighBit(SigBits32(x))
         - (CHOOSE k \in 1..24 :
              /\ SigBits32(x)[k] = 1
              /\ \A j \in 1..(k - 1) : SigBits32(x)[j] = 0)
         + 1

\* C15: for every finite x, the high part of split(x) has fewer than 24
\* significant bits.
C15_SplitHighNarrow ==
  (SplitDone /\ IsFinite(F32, args[1]))
    => IsFinite(F32, ret[1]) /\ SigWidth32(ret[1]) < 24

(***************************************************************************)
(* powi: further claims                                                    *)
(***************************************************************************)

PowiDone == fn = "powi" /\ pc = "done"

\* C16: powi(x, 0) returns exactly 1.0 (0x3ff0000000000000) for every base
\* x, zeros, infinities and NaN included.
C16_PowiExpZero ==
  (fn = "powi" /\ args[2] = 0)
    => PowiDone /\ ret = <<Zeros(52) \o Bits(1023, 11) \o <<0>>>>

\* A NaN base and exponent 0.
C16_Witness ==
  /\ PowiDone
  /\ args[2] = 0
  /\ IsNaN64(args[1])
  /\ ret[1] = Zeros(52) \o Bits(1023, 11) \o <<0>>

\* C17: powi(-1.0, 1) and powi(-1.0, 2) both return NaN.
C17_PowiMinusOneNaN ==
  (PowiOver /\ args[1] = MkF64(1, 1023, Zeros(52)) /\ args[2] \in {1, 2})
    => PowiDone /\ IsNaN64(ret[1])

(***************************************************************************)
(* exp2f: the claims                                                       *)
(***************************************************************************)

Exp2fDone == fn = "exp2f" /\ pc = "done"

\* C18: for every x, exp2f(x) calls powf with base 2.0 (0x40000000) as first
\* argument and x, unchanged, as second, and returns what powf returned,
\* unchanged, whether a NaN, an infinity, a zero or any other value.
C18_Exp2fForwards ==
  Exp2fDone =>
    /\ loc.powf_args = <<Zeros(23) \o Bits(128, 8) \o <<0>>, args[1]>>
    /\ ret = <<loc.powf_ret>>

\* powf returned a NaN for an argument other than 2.0, and exp2f passed the
\* NaN on with its sign.
C18_Witness ==
  /\ Exp2fDone
  /\ args[1] # Two32
  /\ loc.powf_args[2] = args[1]
  /\ IsNaN(F32, loc.powf_ret)
  /\ SignBit(loc.powf_ret) = 1
  /\ ret[1] = loc.powf_ret

(***************************************************************************)
(* trunc: the paths of the edge cases                                      *)
(***************************************************************************)

IsSubnormal64(x) == ExpField64(x) = 0 /\ ~IsZero64(x)

\* C19 as stated: every zero, subnormal, infinity and NaN returns through
\* the first early return (e >= 52 + 12), no mask being built.
C19_EdgeCasesFastPath ==
  (TruncDone /\ (IsZero64(args[1]) \/ IsSubnormal64(args[1])
                   \/ IsInf64(args[1]) \/ IsNaN64(args[1])))
    => loc.route = "large"

\* C19, amended: every infinity and NaN returns through the first early
\* return, unchanged; a zero or a subnormal has e < 12 and gets the mask of
\* shift 1: a zero returns unchanged through the second early return, and a
\* subnormal has its fraction masked off, to the zero of its sign.
C19_EdgeCaseRoutes ==
  TruncDone =>
    /\ (IsInf64(args[1]) \/ IsNaN64(args[1]))
         => loc.route = "large" /\ ret[1] = args[1]
    /\ IsZero64(args[1])
         => loc.route = "integral" /\ loc.e = 1 /\ ret[1] = args[1]
    /\ IsSubnormal64(args[1])
         => /\ loc.route = "masked"
            /\ loc.e = 1
            /\ ret[1] = MakeZero(F64, SignBit(args[1]))

\* A negative subnormal, masked to -0.
C19_Witness ==
  /\ TruncDone
  /\ IsSubnormal64(args[1])
  /\ SignBit(args[1]) = 1
  /\ loc.route = "masked"
  /\ IsZero64(ret[1])
  /\ SignBit(ret[1]) = 1

(***************************************************************************)
(* powi: the length of the loop                                            *)
(***************************************************************************)

\* floor(log2(n)) for n >= 1.
RECURSIVE Log2(_)
Log2(n) == IF n <= 1 THEN 0 ELSE 1 + Log2(n \div 2)

\* C20: for every exp >= 1, a call of powi finishes (it does not panic), and
\* the iterations of its loop completed so far, i - 1, are at most
\* proportional to log2(exp) (here: at most 2 * floor(log2(exp))).
C20_PowiLogIterations ==
  (fn = "powi" /\ args[2] >= 1)
    => /\ pc # "panicked"
       /\ loc.i - 1 <= 2 * Log2(args[2])

(***************************************************************************)
(* powi: concurrent calls                                                  *)
(***************************************************************************)

\* The outcome of powi(x, exp) run alone, from the table powers and the
\* counter i on: <<"done", <<value>>>> or <<"panicked", <<>>>>.
RECURSIVE PowiRun(_, _, _)
PowiRun(powers, i, exp) ==
  IF PowiLoopCond(i, exp)
    THEN (IF InTable(powers, 2 * i)
            THEN PowiRun(PowiFill(powers, i), i + 1, exp)
            ELSE <<"panicked", <<>>>>)
    ELSE IF exp <= i /\ ~InTable(powers, i) THEN <<"panicked", <<>>>>
    ELSE <<"done", <<PowiResult(powers, i, exp)>>>>

PowiAlone(x, exp) ==
  IF exp = 0 THEN <<"done", <<One64>>>>
  ELSE PowiRun(<<One64, x>>, 1, exp)

PowiParOver(t) == loc[t].pc \in {"done", "panicked"}

\* C21: calls of powi share no state.  In every interleaving of concurrent
\* calls, the table of a call that has entered its loop starts as [1, x]
\* with x its own base, the table is dropped when the call is over, the
\* outcome of each call is the outcome of the same call run alone, and two
\* calls with the same arguments have the same outcome.
C21_PowiCallsIndependent ==
  fn = "powi_par" =>
    /\ \A t \in Calls :
         /\ (loc[t].pc = "loop" /\ loc[t].i = 1)
              => loc[t].powers = <<One64, args[t][1]>>
         /\ PowiParOver(t)
              => /\ <<loc[t].pc, loc[t].ret>> = PowiAlone(args[t][1], args[t][2])
                 /\ loc[t].powers = <<>>
    /\ \A t \in Calls, u \in Calls :
         (PowiParOver(t) /\ PowiParOver(u) /\ args[t] = args[u])
           => loc[t].ret = loc[u].ret /\ loc[t].pc = loc[u].pc
    /\ pc = "done"
         => \A t \in Calls : ret[t] = PowiAlone(args[t][1], args[t][2])

\* Two calls with different bases, the second over and the first still in
\* its loop: the second has returned its own base and not the first's.
C21_Witness ==
  /\ fn = "powi_par"
  /\ pc = "running"
  /\ loc[1].pc = "loop"
  /\ loc[2].pc = "done"
  /\ args[1][1] # args[2][1]
  /\ args[2][2] = 1
  /\ loc[2].ret = <<args[2][1]>>

(***************************************************************************)
(* powi: the value returned and the table                                  *)
(***************************************************************************)

PowiHasTable == fn = "powi" /\ args[2] >= 1

\* Entry j of the table (powers[j - 1] of the code) was changed by the step.
PowiWritten(j) ==
  /\ fn = "powi" /\ pc = "loop"
  /\ j <= Len(loc.powers)
  /\ loc'.powers[j] # loc.powers[j]

SameValue32(a, b) ==
  \/ IsNaN(F32, a) /\ IsNaN(F32, b)
  \/ IsZero(F32, a) /\ IsZero(F32, b)
  \/ a = b

\* The unfused x * y + z: the product rounded, then the sum rounded.
Unfused(x, y, z) == FAdd(F32, FMul(F32, x, y), z)

\* hx * ly, lx and lx * ly are zeros, for the parts sx of x and sy of y.
LowTermsZero(sx, sy) ==
  /\ IsZero(F32, FMul(F32, sx[1], sy[2]))
  /\ IsZero(F32, sx[2])
  /\ IsZero(F32, FMul(F32, sx[2], sy[2]))

TruncMaskComputed == TruncDone /\ loc.route # "large"

\* C25: whenever trunc reaches the mask computation -1i64 as u64 >> e, the
\* shift amount e is 1 or lies in 12..63: never negative, never 64 or more.
C25_TruncShiftInRange ==
  TruncMaskComputed => /\ loc.e = 1 \/ loc.e \in 12..63
                       /\ (loc.e = 1) = (TruncExp(args[1]) < 12)

\* A call that shifts by 1 where e was negative, or one that shifts by 63.
C25_Witness ==
  /\ TruncMaskComputed
  /\ \/ loc.e = 1 /\ TruncExp(args[1]) < 0
     \/ loc.e = 63 /\ loc.route = "masked"

====
